---- MODULE Spec2Model ----
(***************************************************************************)
(* A state-machine model of fluent-ffmpeg-simplified: the FFmpegCommand    *)
(* builder (src/src/ffmpeg.ts), the lowering of its input and output specs *)
(* to an argument vector in run(), and the notifications run() relays from *)
(* the execa subprocess handle.                                            *)
(*                                                                         *)
(* Conventions.  A JavaScript string is a sequence of fragments (TLA+      *)
(* strings); concatenation is \o and "" is << >>.  A number is an integer. *)
(* An optional value is << >> (undefined) or <<v>>.  A method call is one  *)
(* action: it runs to completion (JavaScript is single threaded), and the  *)
(* variable thrown holds the message of the error it threw, or NoError.    *)
(***************************************************************************)
EXTENDS Integers, Sequences, FiniteSets, TLC

VARIABLES
  _options,      \* this._options: [stdoutLines |-> n]
  _inputs,       \* this._inputs: sequence of InputSettings
  _outputs,      \* this._outputs: sequence of OutputSettings
  _proc,         \* this._proc: undefined, or the handle execa returned
  _stderrLines,  \* this._stderrLines
  thrown,        \* the error thrown by the last method call, or NoError
  execaCalls,    \* the argument vectors handed to execa, in call order
  bridges,       \* the NamedPipeStream objects constructed, in order
  emitted,       \* the notifications emitted to listeners, in order
  spawnEv,       \* the subprocess 'spawn' event: "none", "pending", "emitted", "never"
  settled,       \* the subprocess promise: "none", "pending", "fulfilled", "rejected"
  iter,          \* the stderr line loop: "none", "open", "done"
  nlines,        \* the number of lines the stderr iterable has yielded
  watcher,       \* the .then/.catch chain: "none", "waiting", "catch", "done"
  runCalled      \* history: run() has been called on the instance

vars == <<_options, _inputs, _outputs, _proc, _stderrLines, thrown, execaCalls,
          bridges, emitted, spawnEv, settled, iter, nlines, watcher, runCalled>>

builderVars == <<_inputs, _outputs>>
procVars == <<_stderrLines, emitted, spawnEv, settled, iter, nlines, watcher>>
runVars == <<_proc, execaCalls, bridges>>

(***************************************************************************)
(* Bounds of the model.                                                    *)
(***************************************************************************)
\* The weight (specs, set fields, extra tokens, filters) a builder may reach
\* in the specification of the whole machine.
MaxWeight == 3
\* The same, in the specification of the builder calls and run() alone.
MaxBuildWeight == 4
\* The number of stderr lines the subprocess yields in the whole machine.
MaxLines == 2
\* The number of stderr lines fed to the diagnostic buffer on its own.
MaxBufLines == 150
\* The weight a builder may reach in the specification of the channel bridges.
MaxBridgeWeight == 3
\* The number of peers that connect to one channel endpoint.
MaxConns == 2
\* The weight a builder may reach in the specification of size().
MaxSizeWeight == 3
\* The weight a builder may reach in the specification of the filter flags.
MaxFilterWeight == 4
\* The number of stderr lines of a run with a negative stdoutLines.
MaxNegLines == 4
\* The weight a builder may reach in the specification of the extra options.
MaxOptWeight == 6

\* constructor: stdoutLines defaults to 100
DefaultStdoutLines == 100

(***************************************************************************)
(* JavaScript values.                                                      *)
(***************************************************************************)
Undefined == << >>
Some(v) == <<v>>
IsDef(o) == Len(o) > 0
Val(o) == o[1]

\* No error thrown; an Error is identified by its message
NoError == << >>
Throw(msg) == [thrown |-> msg, value |-> Undefined]
Return(v) == [thrown |-> NoError, value |-> v]

Lit(s) == <<s>>

RECURSIVE Flatten(_)
\* Array.prototype.flat / String concatenation of a list of parts
Flatten(ss) == IF Len(ss) = 0 THEN << >> ELSE Head(ss) \o Flatten(Tail(ss))

RECURSIVE Join(_, _)
\* Array.prototype.join(sep) over strings
Join(ss, sep) ==
  IF Len(ss) = 0 THEN << >>
  ELSE IF Len(ss) = 1 THEN ss[1]
  ELSE ss[1] \o Lit(sep) \o Join(Tail(ss), sep)

DigitChars == <<"0", "1", "2", "3", "4", "5", "6", "7", "8", "9">>
IsDigit(c) == \E d \in 1..10 : DigitChars[d] = c
DigitValue(c) == (CHOOSE d \in 1..10 : DigitChars[d] = c) - 1

RECURSIVE NatToString(_)
\* Number.prototype.toString for a non-negative integer
NatToString(n) ==
  IF n < 10 THEN <<DigitChars[n + 1]>>
  ELSE NatToString(n \div 10) \o <<DigitChars[(n % 10) + 1]>>

\* Number.prototype.toString for an integer
NumToString(n) == IF n < 0 THEN <<"-">> \o NatToString(0 - n) ELSE NatToString(n)

RECURSIVE DigitsPrefixLen(_)
DigitsPrefixLen(s) ==
  IF Len(s) = 0 \/ ~IsDigit(Head(s)) THEN 0 ELSE 1 + DigitsPrefixLen(Tail(s))

RECURSIVE DigitsToNat(_, _)
DigitsToNat(s, acc) ==
  IF Len(s) = 0 THEN acc ELSE DigitsToNat(Tail(s), acc * 10 + DigitValue(Head(s)))

\* Number.parseInt / Number.parseFloat on a string of single-character
\* fragments over digits, "-", "?", "x", "%" and letters (no ".", no exponent,
\* no whitespace): an optional sign and the longest prefix of digits; NaN
\* when there is no digit.
NaN == [nan |-> TRUE, n |-> 0]
Num(n) == [nan |-> FALSE, n |-> n]
ParseNumber(s) ==
  LET neg == Len(s) > 0 /\ Head(s) = "-"
      body == IF neg THEN Tail(s) ELSE s
      n == DigitsPrefixLen(body)
  IN IF n = 0 THEN NaN
     ELSE Num((IF neg THEN -1 ELSE 1) * DigitsToNat(SubSeq(body, 1, n), 0))

RECURSIVE SplitOn(_, _, _)
\* String.prototype.split(sep) on a string of single-character fragments
SplitOn(s, sep, cur) ==
  IF Len(s) = 0 THEN <<cur>>
  ELSE IF Head(s) = sep THEN <<cur>> \o SplitOn(Tail(s), sep, << >>)
  ELSE SplitOn(Tail(s), sep, Append(cur, Head(s)))

\* parseArgsStringToArgv (string-argv) on an option string without quotes:
\* the maximal runs of non-blank fragments
parseArgsStringToArgv(s) == SelectSeq(SplitOn(s, " ", << >>), LAMBDA t : Len(t) > 0)

(***************************************************************************)
(* The values the callers of the model pass.                               *)
(***************************************************************************)
FilePath(name) == [type |-> "string", val |-> Lit(name)]
StreamObj(name) == [type |-> "stream", val |-> Lit(name)]

Sources == {FilePath("in.mp4"), StreamObj("readable")}
Destinations == {FilePath("out.mp4"), StreamObj("writable")}
OptionStrings == {<<"-y">>, <<"-threads", " ", "2">>}
\* The arguments of one call of inputOptions or outputOptions, flattened
OptionCalls ==
  {<<o>> : o \in OptionStrings} \cup {<< <<"-y">>, <<"-threads", " ", "2">> >>}
\* loop(length): undefined, or a truthy length
LoopArgs == {Undefined, Some(5)}
PlainFilter(name) == [kind |-> "string", filter |-> Lit(name), str |-> << >>, list |-> << >>, map |-> << >>]
ListFilter(name, opts) == [kind |-> "list", filter |-> Lit(name), str |-> << >>, list |-> opts, map |-> << >>]
MapFilter(name, kvs) == [kind |-> "map", filter |-> Lit(name), str |-> << >>, list |-> << >>, map |-> kvs]
StrFilter(name, opts) == [kind |-> "str", filter |-> Lit(name), str |-> opts, list |-> << >>, map |-> << >>]
AudioFilterArgs == {PlainFilter("anull"), StrFilter("volume", Lit("0.5"))}
VideoFilterArgs == {PlainFilter("hflip"), ListFilter("crop", <<Lit("32"), Lit("32")>>)}
FormatArgs == {Lit("mp4")}
TwoFormats == {Lit("mp4"), Lit("matroska")}
TwoInputFormats == {Lit("lavfi"), Lit("rawvideo")}
TwoCodecs == {Lit("aac"), Lit("libopus")}
TwoRates == {25, 30}
InputFormatArgs == {Lit("lavfi")}
TimeArgs == {Lit("0:05")}
DurationArgs == {Lit("10")}
RateArgs == {25}
CodecArgs == {Lit("aac")}
VideoCodecArgs == {Lit("libx264")}
BitrateArgs == {Lit("128k")}
VideoBitrateArgs == {Lit("1M")}
ChannelArgs == {2}
FrequencyArgs == {44100}
QualityArgs == {3}
FrameArgs == {10}
WellFormedSizes ==
  { <<"6", "4", "x", "4", "8">>, <<"6", "4", "x", "?">>, <<"?", "x", "4", "8">>, <<"5", "0", "%">> }
MalformedSizes ==
  { <<"0", "%">>, <<"a", "b", "c">>, <<"?", "x", "?">>, <<"0", "x", "4", "8">>,
    <<"6", "4", "x", "a">>, <<"x", "4", "8">>, <<"a", "%">> }
SizeStrings == WellFormedSizes \cup MalformedSizes
FewSizes == { <<"6", "4", "x", "4", "8">>, <<"0", "%">> }
\* Strings that are none of the four forms of Size, with a numeric prefix
\* or a third token
LenientSizes ==
  { <<"6", "4", "a", "x", "4", "8">>, <<"6", "4", "x", "4", "8", "x", "7">>,
    <<"5", "0", "a", "%">> }
AllSizes == SizeStrings \cup LenientSizes

(***************************************************************************)
(* InputSettings, OutputSettings and the builder's weight.                 *)
(***************************************************************************)
\* input(): { src }
NewInput(src) ==
  [src |-> src, format |-> Undefined, fps |-> Undefined, readrateNative |-> Undefined,
   startTime |-> Undefined, loop |-> Undefined, extraOpts |-> Undefined]

\* AudioSettings {}
EmptyAudio ==
  [codec |-> Undefined, bitrate |-> Undefined, channels |-> Undefined,
   freq |-> Undefined, quality |-> Undefined, filters |-> Undefined]

\* VideoSettings {}
EmptyVideo ==
  [codec |-> Undefined, bitrate |-> Undefined, filters |-> Undefined,
   fps |-> Undefined, frames |-> Undefined, size |-> Undefined]

\* output(): { dst, audio: {}, video: {} }
NewOutput(dst) ==
  [dst |-> dst, audio |-> Some(EmptyAudio), video |-> Some(EmptyVideo),
   format |-> Undefined, duration |-> Undefined, startTime |-> Undefined,
   extraOpts |-> Undefined]

Defined(o) == IF IsDef(o) THEN 1 ELSE 0
ListLen(o) == IF IsDef(o) THEN Len(Val(o)) ELSE 0

InputWeight(i) ==
  1 + Defined(i.format) + Defined(i.fps) + Defined(i.readrateNative)
    + Defined(i.startTime) + Defined(i.loop) + ListLen(i.extraOpts)

AudioWeight(a) ==
  IF ~IsDef(a) THEN 1
  ELSE Defined(Val(a).codec) + Defined(Val(a).bitrate) + Defined(Val(a).channels)
       + Defined(Val(a).freq) + Defined(Val(a).quality) + ListLen(Val(a).filters)

VideoWeight(v) ==
  IF ~IsDef(v) THEN 1
  ELSE Defined(Val(v).codec) + Defined(Val(v).bitrate) + Defined(Val(v).fps)
       + Defined(Val(v).frames) + Defined(Val(v).size) + ListLen(Val(v).filters)

OutputWeight(o) ==
  1 + Defined(o.format) + Defined(o.duration) + Defined(o.startTime)
    + ListLen(o.extraOpts) + AudioWeight(o.audio) + VideoWeight(o.video)

RECURSIVE InputsWeight(_)
InputsWeight(ins) == IF Len(ins) = 0 THEN 0 ELSE InputWeight(Head(ins)) + InputsWeight(Tail(ins))

RECURSIVE OutputsWeight(_)
OutputsWeight(outs) == IF Len(outs) = 0 THEN 0 ELSE OutputWeight(Head(outs)) + OutputsWeight(Tail(outs))

Weight(ins, outs) == InputsWeight(ins) + OutputsWeight(outs)

(***************************************************************************)
(* The builder: input-scoped calls.                                        *)
(***************************************************************************)
\* The builder stays within weight w
Fits(w) == Weight(_inputs', _outputs') <= w

\* What no builder call touches
BuilderFrame ==
  UNCHANGED <<_options, _proc, _stderrLines, execaCalls, bridges, emitted,
              spawnEv, settled, iter, nlines, watcher, runCalled>>

\* JavaScript truthiness of an optional string, number, object
TruthyStr(o) == IF IsDef(o) THEN Len(Val(o)) > 0 ELSE FALSE
TruthyNum(o) == IF IsDef(o) THEN Val(o) # 0 ELSE FALSE
TruthyObj(o) == IsDef(o)

input(src) ==
  /\ _inputs' = Append(_inputs, NewInput(src))
  /\ thrown' = NoError
  /\ UNCHANGED _outputs
  /\ BuilderFrame

\* faulty variant: the message of _getLastOutput
GetLastInputWrongError(ins) ==
  IF Len(ins) = 0 THEN Throw(Lit("No output added. Please add an output"))
  ELSE Return(ins[Len(ins)])

_getLastInput(ins) ==
  IF Len(ins) = 0 THEN Throw(Lit("No input added. Please add an input"))
  ELSE Return(ins[Len(ins)])

\* faulty variant: the call writes the first input
InputCallWritesFirst(r) ==
  /\ thrown' = r.thrown
  /\ _inputs' = IF r.thrown = NoError
                THEN [_inputs EXCEPT ![1] = r.value]
                ELSE _inputs
  /\ UNCHANGED _outputs
  /\ BuilderFrame

\* A call whose result r is an error thrown, or the last input as it leaves it
InputCall(r) ==
  /\ thrown' = r.thrown
  /\ _inputs' = IF r.thrown = NoError
                THEN [_inputs EXCEPT ![Len(_inputs)] = r.value]
                ELSE _inputs
  /\ UNCHANGED _outputs
  /\ BuilderFrame

inputFormat(format) ==
  InputCall(LET last == _getLastInput(_inputs)
            IN IF last.thrown # NoError THEN last
               ELSE Return([last.value EXCEPT !.format = Some(format)]))

inputFPS(fps) ==
  InputCall(LET last == _getLastInput(_inputs)
            IN IF last.thrown # NoError THEN last
               ELSE Return([last.value EXCEPT !.fps = Some(fps)]))

native ==
  InputCall(LET last == _getLastInput(_inputs)
            IN IF last.thrown # NoError THEN last
               ELSE Return([last.value EXCEPT !.readrateNative = Some(TRUE)]))

seekInput(time) ==
  InputCall(LET last == _getLastInput(_inputs)
            IN IF last.thrown # NoError THEN last
               ELSE Return([last.value EXCEPT !.startTime = Some(time)]))

\* faulty variant: the length is tested after the last input was written
LoopWritesBeforeCheck(length) ==
  /\ thrown' = IF Len(_inputs) = 0 THEN Lit("No input added. Please add an input")
               ELSE IF TruthyNum(length)
               THEN Lit("Please specify loop output duration on the output instead")
               ELSE NoError
  /\ _inputs' = IF Len(_inputs) = 0 THEN _inputs
                ELSE [_inputs EXCEPT ![Len(_inputs)].loop = Some(TRUE)]
  /\ UNCHANGED _outputs
  /\ BuilderFrame

loop(length) ==
  InputCall(IF TruthyNum(length)
            THEN Throw(Lit("Please specify loop output duration on the output instead"))
            ELSE LET last == _getLastInput(_inputs)
                 IN IF last.thrown # NoError THEN last
                    ELSE Return([last.value EXCEPT !.loop = Some(TRUE)]))

\* faulty variant: the call replaces the extra options of the input
InputOptionsReplaces(options) ==
  InputCall(LET last == _getLastInput(_inputs)
            IN IF last.thrown # NoError THEN last
               ELSE Return([last.value EXCEPT !.extraOpts =
                      Some(Flatten([k \in 1..Len(options) |->
                                      parseArgsStringToArgv(options[k])]))]))

\* options: the flattened list of option strings of the call
inputOptions(options) ==
  InputCall(LET last == _getLastInput(_inputs)
            IN IF last.thrown # NoError THEN last
               ELSE Return([last.value EXCEPT !.extraOpts =
                      Some((IF IsDef(@) THEN Val(@) ELSE << >>)
                           \o Flatten([k \in 1..Len(options) |->
                                         parseArgsStringToArgv(options[k])]))]))

(***************************************************************************)
(* The builder: output-scoped calls.                                       *)
(***************************************************************************)
output(dst) ==
  /\ _outputs' = Append(_outputs, NewOutput(dst))
  /\ thrown' = NoError
  /\ UNCHANGED _inputs
  /\ BuilderFrame

\* faulty variant: the message of _getLastInput
GetLastOutputWrongError(outs) ==
  IF Len(outs) = 0 THEN Throw(Lit("No input added. Please add an input"))
  ELSE Return(outs[Len(outs)])

_getLastOutput(outs) ==
  IF Len(outs) = 0 THEN Throw(Lit("No output added. Please add an output"))
  ELSE Return(outs[Len(outs)])

\* A call whose result r is an error thrown, or the last output as it leaves it
OutputCall(r) ==
  /\ thrown' = r.thrown
  /\ _outputs' = IF r.thrown = NoError
                 THEN [_outputs EXCEPT ![Len(_outputs)] = r.value]
                 ELSE _outputs
  /\ UNCHANGED _inputs
  /\ BuilderFrame

\* options: the flattened list of option strings of the call
outputOptions(options) ==
  OutputCall(LET last == _getLastOutput(_outputs)
             IN IF last.thrown # NoError THEN last
                ELSE Return([last.value EXCEPT !.extraOpts =
                       Some((IF IsDef(@) THEN Val(@) ELSE << >>)
                            \o Flatten([k \in 1..Len(options) |->
                                          parseArgsStringToArgv(options[k])]))]))

noAudio ==
  OutputCall(LET last == _getLastOutput(_outputs)
             IN IF last.thrown # NoError THEN last
                ELSE Return([last.value EXCEPT !.audio = Undefined]))

\* faulty variant: the setter re-creates the settings of a disabled track
SetAudioPropsReenables(outs, key, value) ==
  LET last == _getLastOutput(outs)
  IN IF last.thrown # NoError THEN last
     ELSE Return([last.value EXCEPT !.audio =
            Some([(IF IsDef(@) THEN Val(@) ELSE EmptyAudio) EXCEPT ![key] = Some(value)])])

setAudioProps(outs, key, value) ==
  LET last == _getLastOutput(outs)
  IN IF last.thrown # NoError THEN last
     ELSE IF ~TruthyObj(last.value.audio) THEN Throw(Lit("Audio disabled"))
     ELSE Return([last.value EXCEPT !.audio = Some([Val(@) EXCEPT ![key] = Some(value)])])

audioCodec(codec) == OutputCall(setAudioProps(_outputs, "codec", codec))

audioBitrate(bitrate) == OutputCall(setAudioProps(_outputs, "bitrate", bitrate))

audioChannels(count) == OutputCall(setAudioProps(_outputs, "channels", count))

audioFrequency(freq) == OutputCall(setAudioProps(_outputs, "freq", freq))

audioQuality(q) == OutputCall(setAudioProps(_outputs, "quality", q))

\* filters: the flattened list of filters of the call
audioFilters(filters) ==
  OutputCall(LET last == _getLastOutput(_outputs)
             IN IF last.thrown # NoError THEN last
                ELSE IF ~TruthyObj(last.value.audio) THEN Throw(Lit("Audio disabled"))
                ELSE Return([last.value EXCEPT !.audio = Some([Val(@) EXCEPT !.filters =
                       Some((IF IsDef(@) THEN Val(@) ELSE << >>) \o filters)])]))

noVideo ==
  OutputCall(LET last == _getLastOutput(_outputs)
             IN IF last.thrown # NoError THEN last
                ELSE Return([last.value EXCEPT !.video = Undefined]))

setVideoProps(outs, key, value) ==
  LET last == _getLastOutput(outs)
  IN IF last.thrown # NoError THEN last
     ELSE IF ~TruthyObj(last.value.video) THEN Throw(Lit("Video disabled"))
     ELSE Return([last.value EXCEPT !.video = Some([Val(@) EXCEPT ![key] = Some(value)])])

videoCodec(codec) == OutputCall(setVideoProps(_outputs, "codec", codec))

videoBitrate(bitrate) == OutputCall(setVideoProps(_outputs, "bitrate", bitrate))

fps(n) == OutputCall(setVideoProps(_outputs, "fps", n))

frames(count) == OutputCall(setVideoProps(_outputs, "frames", count))

\* VideoSettings.size
SizePercent(percent) == [percent |-> Some(percent), width |-> Undefined, height |-> Undefined]
SizeWH(width, height) == [percent |-> Undefined, width |-> width, height |-> height]

\* size(size) up to its return or throw; s is a string of single characters
SizeResult(outs, s) ==
  IF Len(s) > 0 /\ s[Len(s)] = "%"
  THEN LET percentStr == SubSeq(s, 1, Len(s) - 1)
           percent == ParseNumber(percentStr)
       IN IF percent.nan \/ percent.n <= 0
          THEN Throw(Lit("Invalid size: ") \o s)
          ELSE setVideoProps(outs, "size", SizePercent(percent.n))
  ELSE LET parts == SplitOn(s, "x", << >>)
           widthStr == parts[1]
           heightStr == IF Len(parts) >= 2 THEN Some(parts[2]) ELSE Undefined
       IN IF Len(widthStr) = 0 \/ ~TruthyStr(heightStr)
          THEN Throw(Lit("Invalid size: ") \o s)
          ELSE LET width == IF widthStr = <<"?">> THEN Undefined
                            ELSE Some(ParseNumber(widthStr))
                   height == IF Val(heightStr) = <<"?">> THEN Undefined
                             ELSE Some(ParseNumber(Val(heightStr)))
               IN IF IsDef(width) /\ (Val(width).nan \/ Val(width).n <= 0)
                  THEN Throw(Lit("Invalid width: ") \o widthStr)
                  ELSE IF IsDef(height) /\ (Val(height).nan \/ Val(height).n <= 0)
                  THEN Throw(Lit("Invalid height: ") \o Val(heightStr))
                  ELSE IF IsDef(width)
                  THEN setVideoProps(outs, "size",
                         SizeWH(Some(Val(width).n),
                                IF IsDef(height) THEN Some(Val(height).n) ELSE Undefined))
                  ELSE IF IsDef(height)
                  THEN setVideoProps(outs, "size", SizeWH(Undefined, Some(Val(height).n)))
                  ELSE Throw(Lit("Width and height can't both be unknown"))

size(s) == OutputCall(SizeResult(_outputs, s))

\* filters: the flattened list of filters of the call
videoFilters(filters) ==
  OutputCall(LET last == _getLastOutput(_outputs)
             IN IF last.thrown # NoError THEN last
                ELSE IF ~TruthyObj(last.value.video) THEN Throw(Lit("Video disabled"))
                ELSE Return([last.value EXCEPT !.video = Some([Val(@) EXCEPT !.filters =
                       Some((IF IsDef(@) THEN Val(@) ELSE << >>) \o filters)])]))

duration(dur) ==
  OutputCall(LET last == _getLastOutput(_outputs)
             IN IF last.thrown # NoError THEN last
                ELSE Return([last.value EXCEPT !.duration = Some(dur)]))

seek(start) ==
  OutputCall(LET last == _getLastOutput(_outputs)
             IN IF last.thrown # NoError THEN last
                ELSE Return([last.value EXCEPT !.startTime = Some(start)]))

format(fmt) ==
  OutputCall(LET last == _getLastOutput(_outputs)
             IN IF last.thrown # NoError THEN last
                ELSE Return([last.value EXCEPT !.format = Some(fmt)]))

(***************************************************************************)
(* Argument lowering: the two loops of run().                              *)
(***************************************************************************)
\* The option string of a structured filter
FilterOptions(el) ==
  IF el.kind = "str" THEN el.str
  ELSE IF el.kind = "list" THEN Join(el.list, ":")
  ELSE Join([k \in 1..Len(el.map) |-> el.map[k][1] \o Lit("=") \o el.map[k][2]], ":")

filtersToString(filters) ==
  Join([k \in 1..Len(filters) |->
          IF filters[k].kind = "string" THEN filters[k].filter
          ELSE filters[k].filter \o Lit("=") \o FilterOptions(filters[k])], ",")

\* new NamedPipeStream(stream, onSocket) on a platform other than win32: the
\* k-th random id stands for randomUUID().  listen() returns before the
\* outcome of the bind is reported: the server is "binding" until its
\* 'listening' or its 'error' event.  pipes are the pipe() calls of onSocket.
NamedPipeStream(role, stream, k) ==
  LET socketPath == Lit("/tmp/") \o Lit("uuid") \o NatToString(k) \o Lit(".sock")
  IN [role |-> role, stream |-> stream, socketPath |-> socketPath,
      url |-> Lit("unix:") \o socketPath,
      server |-> "binding", pipes |-> << >>, streamClosed |-> FALSE]

StreamInput(stream, k) == NamedPipeStream("input", stream, k)

StreamOutput(stream, k) == NamedPipeStream("output", stream, k)

\* ${factor} for factor = percent / 100
FactorString(percent) ==
  LET whole == percent \div 100
      frac == percent % 100
  IN IF frac = 0 THEN NatToString(whole)
     ELSE IF frac % 10 = 0 THEN NatToString(whole) \o Lit(".") \o NatToString(frac \div 10)
     ELSE NatToString(whole) \o Lit(".") \o <<DigitChars[(frac \div 10) + 1]>>
          \o NatToString(frac % 10)

\* The scale filter run() derives from VideoSettings.size
ScaleFilter(sz) ==
  IF IsDef(sz.percent)
  THEN MapFilter("scale",
         << <<Lit("w"), Lit("trunc(iw*") \o FactorString(Val(sz.percent)) \o Lit("/2)*2")>>,
            <<Lit("h"), Lit("trunc(ih*") \o FactorString(Val(sz.percent)) \o Lit("/2)*2")>> >>)
  ELSE MapFilter("scale",
         << <<Lit("w"), IF TruthyNum(sz.width) THEN NumToString(Val(sz.width)) ELSE Lit("-2")>>,
            <<Lit("h"), IF TruthyNum(sz.height) THEN NumToString(Val(sz.height)) ELSE Lit("-2")>> >>)

\* faulty variant: the start time is pushed before the format
InputArgsSeekFirst(i, url) ==
  (IF TruthyObj(i.extraOpts) THEN Val(i.extraOpts) ELSE << >>)
  \o (IF TruthyStr(i.startTime) THEN <<Lit("-ss"), Val(i.startTime)>> ELSE << >>)
  \o (IF TruthyStr(i.format) THEN <<Lit("-f"), Val(i.format)>> ELSE << >>)
  \o (IF TruthyNum(i.fps) THEN <<Lit("-r"), NumToString(Val(i.fps))>> ELSE << >>)
  \o (IF TruthyObj(i.readrateNative) THEN <<Lit("-re")>> ELSE << >>)
  \o (IF TruthyObj(i.loop) THEN <<Lit("-loop"), Lit("-1")>> ELSE << >>)
  \o <<Lit("-i"), url>>

\* The tokens the first loop pushes for one input; url is the source path or
\* the url of the bridge opened for a stream
InputArgs(i, url) ==
  (IF TruthyObj(i.extraOpts) THEN Val(i.extraOpts) ELSE << >>)
  \o (IF TruthyStr(i.format) THEN <<Lit("-f"), Val(i.format)>> ELSE << >>)
  \o (IF TruthyNum(i.fps) THEN <<Lit("-r"), NumToString(Val(i.fps))>> ELSE << >>)
  \o (IF TruthyObj(i.readrateNative) THEN <<Lit("-re")>> ELSE << >>)
  \o (IF TruthyStr(i.startTime) THEN <<Lit("-ss"), Val(i.startTime)>> ELSE << >>)
  \o (IF TruthyObj(i.loop) THEN <<Lit("-loop"), Lit("-1")>> ELSE << >>)
  \o <<Lit("-i"), url>>

\* The audio block of one output
AudioArgs(audio) ==
  IF ~TruthyObj(audio) THEN <<Lit("-an")>>
  ELSE (IF TruthyStr(Val(audio).codec) THEN <<Lit("-c:a"), Val(Val(audio).codec)>> ELSE << >>)
    \o (IF TruthyStr(Val(audio).bitrate) THEN <<Lit("-b:a"), Val(Val(audio).bitrate)>> ELSE << >>)
    \o (IF TruthyNum(Val(audio).channels)
        THEN <<Lit("-ac"), NumToString(Val(Val(audio).channels))>> ELSE << >>)
    \o (IF TruthyNum(Val(audio).freq)
        THEN <<Lit("-ar"), NumToString(Val(Val(audio).freq))>> ELSE << >>)
    \o (IF TruthyNum(Val(audio).quality)
        THEN <<Lit("-q:a"), NumToString(Val(Val(audio).quality))>> ELSE << >>)
    \o (IF TruthyObj(Val(audio).filters)
        THEN <<Lit("-af"), filtersToString(Val(Val(audio).filters))>> ELSE << >>)

\* The video block of one output
VideoArgs(video) ==
  IF ~TruthyObj(video) THEN <<Lit("-vn")>>
  ELSE LET resolvedFilters ==
             (IF IsDef(Val(video).filters) THEN Val(Val(video).filters) ELSE << >>)
             \o (IF TruthyObj(Val(video).size)
                 THEN <<ScaleFilter(Val(Val(video).size))>> ELSE << >>)
       IN (IF TruthyStr(Val(video).codec) THEN <<Lit("-c:v"), Val(Val(video).codec)>> ELSE << >>)
       \o (IF TruthyStr(Val(video).bitrate)
           THEN <<Lit("-b:v"), Val(Val(video).bitrate)>> ELSE << >>)
       \o (IF TruthyNum(Val(video).fps)
           THEN <<Lit("-r"), NumToString(Val(Val(video).fps))>> ELSE << >>)
       \o (IF TruthyNum(Val(video).frames)
           THEN <<Lit("-frames:v"), NumToString(Val(Val(video).frames))>> ELSE << >>)
       \o (IF Len(resolvedFilters) # 0
           THEN <<Lit("-vf"), filtersToString(resolvedFilters)>> ELSE << >>)

\* The tokens the second loop pushes for one output; url is the destination
\* path or the url of the bridge opened for a stream
OutputArgs(o, url) ==
  (IF TruthyStr(o.format) THEN <<Lit("-f"), Val(o.format)>> ELSE << >>)
  \o (IF TruthyStr(o.startTime) THEN <<Lit("-ss"), Val(o.startTime)>> ELSE << >>)
  \o (IF TruthyStr(o.duration) THEN <<Lit("-t"), Val(o.duration)>> ELSE << >>)
  \o AudioArgs(o.audio)
  \o VideoArgs(o.video)
  \o (IF TruthyObj(o.extraOpts) THEN Val(o.extraOpts) ELSE << >>)
  \o <<url>>

RECURSIVE LowerInputs(_, _, _)
\* for (const input of this._inputs): acc is [args, bridges]
LowerInputs(ins, k, acc) ==
  IF k > Len(ins) THEN acc
  ELSE IF ins[k].src.type = "string"
  THEN LowerInputs(ins, k + 1,
         [acc EXCEPT !.args = @ \o InputArgs(ins[k], ins[k].src.val)])
  ELSE LET stream == StreamInput(ins[k].src.val, Len(acc.bridges) + 1)
       IN LowerInputs(ins, k + 1,
            [args |-> acc.args \o InputArgs(ins[k], stream.url),
             bridges |-> Append(acc.bridges, stream)])

RECURSIVE LowerOutputs(_, _, _)
\* for (const output of this._outputs): acc is [args, bridges]
LowerOutputs(outs, k, acc) ==
  IF k > Len(outs) THEN acc
  ELSE IF outs[k].dst.type = "string"
  THEN LowerOutputs(outs, k + 1,
         [acc EXCEPT !.args = @ \o OutputArgs(outs[k], outs[k].dst.val)])
  ELSE LET stream == StreamOutput(outs[k].dst.val, Len(acc.bridges) + 1)
       IN LowerOutputs(outs, k + 1,
            [args |-> acc.args \o OutputArgs(outs[k], stream.url),
             bridges |-> Append(acc.bridges, stream)])

(***************************************************************************)
(* run() and the notifications it relays.                                  *)
(***************************************************************************)
\* ffmpegPath when FFMPEG_PATH is not set
ffmpegPath == Lit("ffmpeg")

Event(name, arg, err) == [name |-> name, arg |-> arg, err |-> err]

\* faulty variant: the check of this._proc is missing
RunGuardNoProcCheck(proc, ins, outs) ==
  IF Len(ins) = 0 THEN Lit("No inputs specified")
  ELSE IF Len(outs) = 0 THEN Lit("No outputs specified")
  ELSE NoError

\* faulty variant: the check of this._outputs is missing
RunGuardNoOutputCheck(proc, ins, outs) ==
  IF TruthyObj(proc) THEN Lit("This instance is already run")
  ELSE IF Len(ins) = 0 THEN Lit("No inputs specified")
  ELSE NoError

\* The three checks run() starts with: the error it throws, or NoError
RunGuard(proc, ins, outs) ==
  IF TruthyObj(proc) THEN Lit("This instance is already run")
  ELSE IF Len(ins) = 0 THEN Lit("No inputs specified")
  ELSE IF Len(outs) = 0 THEN Lit("No outputs specified")
  ELSE NoError

\* The argument vector and the bridges of a run that passed the checks
Lower(ins, outs, brs) ==
  LowerOutputs(outs, 1, LowerInputs(ins, 1, [args |-> << >>, bridges |-> brs]))

run ==
  LET err == RunGuard(_proc, _inputs, _outputs)
      low == Lower(_inputs, _outputs, bridges)
  IN /\ runCalled' = TRUE
     /\ IF err # NoError
        THEN /\ thrown' = err
             /\ UNCHANGED <<_options, _inputs, _outputs, _proc, _stderrLines, execaCalls,
                            bridges, emitted, spawnEv, settled, iter, nlines, watcher>>
        ELSE /\ thrown' = NoError
             /\ bridges' = low.bridges
             /\ execaCalls' = Append(execaCalls, [file |-> ffmpegPath, args |-> low.args])
             /\ _proc' = Some(Len(execaCalls) + 1)
             /\ spawnEv' = "pending"
             /\ settled' = "pending"
             /\ iter' = "open"
             /\ watcher' = "waiting"
             /\ UNCHANGED <<_options, _inputs, _outputs, _stderrLines, emitted, nlines>>

\* What no callback of the subprocess touches
CallbackFrame ==
  UNCHANGED <<_options, _inputs, _outputs, _proc, thrown, execaCalls, bridges, runCalled>>

\* proc.once("spawn", ...): the subprocess was spawned
ProcSpawned ==
  /\ spawnEv = "pending"
  /\ spawnEv' = "emitted"
  /\ emitted' = Append(emitted,
       Event("start", Join(<<ffmpegPath>> \o execaCalls[Len(execaCalls)].args, " "), << >>))
  /\ UNCHANGED <<_stderrLines, settled, iter, nlines, watcher>>
  /\ CallbackFrame

\* The subprocess could not be spawned: no 'spawn' event is ever emitted
ProcSpawnFailed ==
  /\ spawnEv = "pending"
  /\ spawnEv' = "never"
  /\ UNCHANGED <<_stderrLines, emitted, settled, iter, nlines, watcher>>
  /\ CallbackFrame

\* The promise of the subprocess settles: it exited with code 0 (ok), or it
\* failed, was killed or was cancelled
ProcSettled(ok) ==
  /\ settled = "pending"
  /\ IF ok THEN spawnEv = "emitted" ELSE spawnEv \in {"emitted", "never"}
  /\ settled' = IF ok THEN "fulfilled" ELSE "rejected"
  /\ UNCHANGED <<_stderrLines, emitted, spawnEv, iter, nlines, watcher>>
  /\ CallbackFrame

\* Array.prototype.slice(start)
Slice(a, start) ==
  LET from == IF start < 0
              THEN (IF Len(a) + start < 0 THEN 0 ELSE Len(a) + start)
              ELSE (IF start > Len(a) THEN Len(a) ELSE start)
  IN SubSeq(a, from + 1, Len(a))

\* faulty variant: the comparison is >= instead of >
BufferAfterTrimsEarly(lines, line, stdoutLines) ==
  LET pushed == Append(lines, line)
  IN IF stdoutLines # 0 /\ Len(pushed) >= stdoutLines
     THEN Slice(pushed, Len(pushed) - stdoutLines + 1)
     ELSE pushed

\* faulty variant: only a positive stdoutLines trims
BufferAfterPositiveOnly(lines, line, stdoutLines) ==
  LET pushed == Append(lines, line)
  IN IF stdoutLines > 0 /\ Len(pushed) > stdoutLines
     THEN Slice(pushed, Len(pushed) - stdoutLines)
     ELSE pushed

\* this._stderrLines after processStderr(line)
BufferAfter(lines, line, stdoutLines) ==
  LET pushed == Append(lines, line)
  IN IF stdoutLines # 0 /\ Len(pushed) > stdoutLines
     THEN Slice(pushed, Len(pushed) - stdoutLines)
     ELSE pushed

\* The k-th line the subprocess writes to stderr
Line(k) == Lit("line") \o NatToString(k)

processStderr(line) ==
  /\ emitted' = Append(emitted, Event("stderr", line, << >>))
  /\ _stderrLines' = BufferAfter(_stderrLines, line, _options.stdoutLines)

\* for await (const line of proc.iterable({ from: "stderr" })): one turn of the
\* loop.  Node emits 'spawn' before any data is received on stderr; the
\* iterable may still yield lines after the promise of the subprocess settled.
StderrLine(max) ==
  /\ iter = "open"
  /\ spawnEv = "emitted"
  /\ nlines < max
  /\ nlines' = nlines + 1
  /\ processStderr(Line(nlines + 1))
  /\ UNCHANGED <<spawnEv, settled, iter, watcher>>
  /\ CallbackFrame

\* The iterable ends: execa stops it once the subprocess has settled
StderrDone ==
  /\ iter = "open"
  /\ settled # "pending"
  /\ iter' = "done"
  /\ UNCHANGED <<_stderrLines, emitted, spawnEv, settled, nlines, watcher>>
  /\ CallbackFrame

\* proc.then(() => emit("end", ...)): listenerThrows says whether a listener
\* of "end" throws, which rejects the promise .then() returned
WatcherThen(listenerThrows) ==
  /\ watcher = "waiting"
  /\ settled = "fulfilled"
  /\ emitted' = Append(emitted, Event("end", Join(_stderrLines, "\n"), << >>))
  /\ watcher' = IF listenerThrows THEN "catch" ELSE "done"
  /\ UNCHANGED <<_stderrLines, spawnEv, settled, iter, nlines>>
  /\ CallbackFrame

\* .catch((err) => emit("error", err, ...)): err is the failure of the
\* subprocess, or what the listener of "end" threw
WatcherCatch ==
  /\ \/ watcher = "waiting" /\ settled = "rejected"
     \/ watcher = "catch"
  /\ emitted' = Append(emitted,
       Event("error", Join(_stderrLines, "\n"),
             IF watcher = "catch" THEN Lit("thrown by a listener of end")
             ELSE Lit("ExecaError")))
  /\ watcher' = "done"
  /\ UNCHANGED <<_stderrLines, spawnEv, settled, iter, nlines>>
  /\ CallbackFrame

(***************************************************************************)
(* The channel bridge after its construction: the events of its net.Server *)
(* and of the stream bound to it.                                          *)
(***************************************************************************)
\* What no event of a bridge touches
BridgeFrame ==
  UNCHANGED <<_options, _inputs, _outputs, _proc, _stderrLines, thrown, execaCalls,
              emitted, spawnEv, settled, iter, nlines, watcher, runCalled>>

\* this._server.listen(this._socketPath) succeeded: 'listening' is emitted
ServerListening(k) ==
  /\ bridges[k].server = "binding"
  /\ bridges' = [bridges EXCEPT ![k].server = "listening"]
  /\ BridgeFrame

\* this._server.listen(this._socketPath) failed to bind: net.Server reports it
\* by an 'error' event emitted on a later tick; no listener is registered
ServerError(k) ==
  /\ bridges[k].server = "binding"
  /\ bridges' = [bridges EXCEPT ![k].server = "failed"]
  /\ BridgeFrame

\* A peer connects to the listening server: net.createServer(onSocket) calls
\* onSocket for the connection.  StreamInput: stream.pipe(sock);
\* StreamOutput: sock.pipe(stream, pipeArgs).  sock is the n-th socket.
Connect(k, max) ==
  /\ bridges[k].server = "listening"
  /\ Len(bridges[k].pipes) < max
  /\ LET sock == Len(bridges[k].pipes) + 1
     IN bridges' = [bridges EXCEPT ![k].pipes =
          Append(@, IF bridges[k].role = "input"
                    THEN [from |-> "stream", to |-> sock]
                    ELSE [from |-> sock, to |-> "stream"])]
  /\ BridgeFrame

\* Server.close(): stops the server from accepting; no fault when the server
\* is not listening
ServerClose(state) == IF state \in {"binding", "listening"} THEN "closed" ELSE state

\* faulty variant: no listener of "close" is registered on the stream
StreamCloseLeavesServer(k) ==
  /\ ~bridges[k].streamClosed
  /\ bridges' = [bridges EXCEPT ![k].streamClosed = TRUE]
  /\ BridgeFrame

\* stream.on("close", () => { this._server.close(); }): the stream closes
StreamClose(k) ==
  /\ ~bridges[k].streamClosed
  /\ bridges' = [bridges EXCEPT ![k].streamClosed = TRUE,
                                ![k].server = ServerClose(@)]
  /\ BridgeFrame

\* NamedPipeStream.close()
close(k) ==
  /\ bridges' = [bridges EXCEPT ![k].server = ServerClose(@)]
  /\ BridgeFrame

(***************************************************************************)
(* Specifications.                                                         *)
(***************************************************************************)
\* new FFmpegCommand({ stdoutLines }) for stdoutLines in choices
InitWith(choices) ==
  /\ _options \in {[stdoutLines |-> n] : n \in choices}
  /\ _inputs = << >>
  /\ _outputs = << >>
  /\ _proc = Undefined
  /\ _stderrLines = << >>
  /\ thrown = NoError
  /\ execaCalls = << >>
  /\ bridges = << >>
  /\ emitted = << >>
  /\ spawnEv = "none"
  /\ settled = "none"
  /\ iter = "none"
  /\ nlines = 0
  /\ watcher = "none"
  /\ runCalled = FALSE

\* The builder calls, within weight w, with the size strings sizes and the
\* arguments loopArgs of loop()
BuilderCall(w, sizes, loopArgs) ==
  \/ \E src \in Sources : input(src) /\ Fits(w)
  \/ \E f \in InputFormatArgs : inputFormat(f) /\ Fits(w)
  \/ \E n \in RateArgs : inputFPS(n) /\ Fits(w)
  \/ native /\ Fits(w)
  \/ \E t \in TimeArgs : seekInput(t) /\ Fits(w)
  \/ \E length \in loopArgs : loop(length) /\ Fits(w)
  \/ \E o \in OptionStrings : inputOptions(<<o>>) /\ Fits(w)
  \/ \E dst \in Destinations : output(dst) /\ Fits(w)
  \/ \E o \in OptionStrings : outputOptions(<<o>>) /\ Fits(w)
  \/ noAudio /\ Fits(w)
  \/ \E c \in CodecArgs : audioCodec(c) /\ Fits(w)
  \/ \E b \in BitrateArgs : audioBitrate(b) /\ Fits(w)
  \/ \E n \in ChannelArgs : audioChannels(n) /\ Fits(w)
  \/ \E n \in FrequencyArgs : audioFrequency(n) /\ Fits(w)
  \/ \E n \in QualityArgs : audioQuality(n) /\ Fits(w)
  \/ \E f \in AudioFilterArgs : audioFilters(<<f>>) /\ Fits(w)
  \/ noVideo /\ Fits(w)
  \/ \E c \in VideoCodecArgs : videoCodec(c) /\ Fits(w)
  \/ \E b \in VideoBitrateArgs : videoBitrate(b) /\ Fits(w)
  \/ \E n \in RateArgs : fps(n) /\ Fits(w)
  \/ \E n \in FrameArgs : frames(n) /\ Fits(w)
  \/ \E s \in sizes : size(s) /\ Fits(w)
  \/ \E f \in VideoFilterArgs : videoFilters(<<f>>) /\ Fits(w)
  \/ \E d \in DurationArgs : duration(d) /\ Fits(w)
  \/ \E t \in TimeArgs : seek(t) /\ Fits(w)
  \/ \E f \in FormatArgs : format(f) /\ Fits(w)

\* The callbacks of the subprocess, with at most max stderr lines
Callback(max) ==
  \/ ProcSpawned
  \/ ProcSpawnFailed
  \/ \E ok \in BOOLEAN : ProcSettled(ok)
  \/ StderrLine(max)
  \/ StderrDone
  \/ \E listenerThrows \in BOOLEAN : WatcherThen(listenerThrows)
  \/ WatcherCatch

\* The whole machine
Init == InitWith({DefaultStdoutLines})

Next == BuilderCall(MaxWeight, FewSizes, LoopArgs) \/ run \/ Callback(MaxLines)

Spec == Init /\ [][Next]_vars

\* The builder calls and run() in one synchronous stretch of caller code: no
\* callback of the subprocess runs in between.  The arguments are those a
\* call accepts: a well-formed size, no length for loop().
NextBuild == BuilderCall(MaxBuildWeight, WellFormedSizes, {Undefined}) \/ run

SpecBuild == InitWith({DefaultStdoutLines}) /\ [][NextBuild]_vars

\* The diagnostic buffer: a command of file inputs and outputs is run and its
\* subprocess writes up to MaxBufLines lines to stderr
BufferSizes == {0, 1, 2, 3, DefaultStdoutLines}

NextBuf ==
  \/ input(FilePath("in.mp4")) /\ Fits(MaxWeight)
  \/ output(FilePath("out.mp4")) /\ Fits(MaxWeight)
  \/ run
  \/ ProcSpawned
  \/ StderrLine(MaxBufLines)

SpecBuf == InitWith(BufferSizes) /\ [][NextBuf]_vars

\* The channel bridges: a command of file or stream inputs and outputs is
\* run, and its bridges receive the events of their servers and streams
BridgeEvent(max) ==
  \E k \in 1..Len(bridges) :
    \/ ServerListening(k)
    \/ ServerError(k)
    \/ Connect(k, max)
    \/ StreamClose(k)
    \/ close(k)

NextBridge ==
  \/ \E src \in Sources : input(src) /\ Fits(MaxBridgeWeight)
  \/ \E dst \in Destinations : output(dst) /\ Fits(MaxBridgeWeight)
  \/ run
  \/ BridgeEvent(MaxConns)

SpecBridge == InitWith({DefaultStdoutLines}) /\ [][NextBridge]_vars

\* size(): outputs with video enabled or disabled are given any size string
NextSize ==
  \/ input(FilePath("in.mp4")) /\ Fits(MaxSizeWeight)
  \/ output(FilePath("out.mp4")) /\ Fits(MaxSizeWeight)
  \/ noVideo /\ Fits(MaxSizeWeight)
  \/ \E s \in AllSizes : size(s) /\ Fits(MaxSizeWeight)
  \/ run

\* The diagnostic buffer under a negative stdoutLines: a command of file
\* inputs and outputs is run to its terminal notification
NegativeSizes == {-1, -2, -100}

NextNeg ==
  \/ input(FilePath("in.mp4")) /\ Fits(MaxWeight)
  \/ output(FilePath("out.mp4")) /\ Fits(MaxWeight)
  \/ run
  \/ ProcSpawned
  \/ StderrLine(MaxNegLines)
  \/ \E ok \in BOOLEAN : ProcSettled(ok)
  \/ StderrDone
  \/ WatcherThen(FALSE)
  \/ WatcherCatch

SpecNeg == InitWith(NegativeSizes) /\ [][NextNeg]_vars

SpecSize == InitWith({DefaultStdoutLines}) /\ [][NextSize]_vars

\* The extra options and the scalar setters: file inputs and outputs are
\* given option strings and formats, codecs and rates, repeatedly, and run
NextOpts ==
  \/ input(FilePath("in.mp4")) /\ Fits(MaxOptWeight)
  \/ output(FilePath("out.mp4")) /\ Fits(MaxOptWeight)
  \/ \E os \in OptionCalls : inputOptions(os) /\ Fits(MaxOptWeight)
  \/ \E os \in OptionCalls : outputOptions(os) /\ Fits(MaxOptWeight)
  \/ \E f \in TwoInputFormats : inputFormat(f) /\ Fits(MaxOptWeight)
  \/ \E f \in TwoFormats : format(f) /\ Fits(MaxOptWeight)
  \/ \E c \in TwoCodecs : audioCodec(c) /\ Fits(MaxOptWeight)
  \/ \E n \in TwoRates : fps(n) /\ Fits(MaxOptWeight)
  \/ run

SpecOpts == InitWith({DefaultStdoutLines}) /\ [][NextOpts]_vars

\* The filter flags: audioFilters() and videoFilters() are called with no
\* filter or with one, on file outputs whose tracks may be disabled
NextFilters ==
  \/ input(FilePath("in.mp4")) /\ Fits(MaxFilterWeight)
  \/ output(FilePath("out.mp4")) /\ Fits(MaxFilterWeight)
  \/ noAudio /\ Fits(MaxFilterWeight)
  \/ noVideo /\ Fits(MaxFilterWeight)
  \/ \E fs \in {<< >>, <<PlainFilter("anull")>>} : audioFilters(fs) /\ Fits(MaxFilterWeight)
  \/ \E fs \in {<< >>, <<PlainFilter("hflip")>>} : videoFilters(fs) /\ Fits(MaxFilterWeight)
  \/ size(<<"6", "4", "x", "4", "8">>) /\ Fits(MaxFilterWeight)
  \/ run

SpecFilters == InitWith({DefaultStdoutLines}) /\ [][NextFilters]_vars

(***************************************************************************)
(* Claims.                                                                 *)
(***************************************************************************)
AlreadyRun == Lit("This instance is already run")
NoInputs == Lit("No inputs specified")
NoOutputs == Lit("No outputs specified")

\* C1, as stated: once run() has been called, whatever it did (it returned a
\* handle or it threw), every later run() throws and spawns no process.
C1_AnyFirstRun ==
  [][(runCalled /\ run) => (thrown' # NoError /\ execaCalls' = execaCalls)]_vars

\* C1, amended: once run() has returned a process handle, every later run()
\* throws "This instance is already run", spawns no process and opens no
\* bridge, whether the process is running, succeeded, failed or never spawned.
C1_RunOnceAfterHandle ==
  [][(TruthyObj(_proc) /\ run) =>
       (thrown' = AlreadyRun /\ execaCalls' = execaCalls /\ bridges' = bridges
        /\ _proc' = _proc)]_vars

\* C1 witness: a second run() threw after the process of the first succeeded
C1_Witness ==
  /\ thrown = AlreadyRun
  /\ settled = "fulfilled"
  /\ Len(execaCalls) = 1

\* C2: execa is invoked at most once per instance, and the instance is marked
\* as run (this._proc is set) exactly when execa has been invoked.
C2_SpawnAtMostOnce ==
  /\ Len(execaCalls) <= 1
  /\ (Len(execaCalls) = 1) = TruthyObj(_proc)

\* C2 witness: run() was called again after the one invocation of execa
C2_Witness ==
  /\ Len(execaCalls) = 1
  /\ thrown = AlreadyRun
  /\ settled = "rejected"

\* C3: run() with zero inputs or zero outputs throws a usage error, opens no
\* bridge, does not invoke execa and emits no notification.
C3_RunNeedsInputAndOutput ==
  [][(run /\ (Len(_inputs) = 0 \/ Len(_outputs) = 0)) =>
       (/\ thrown' \in {NoInputs, NoOutputs}
        /\ bridges' = bridges
        /\ execaCalls' = execaCalls
        /\ emitted' = emitted
        /\ _proc' = _proc)]_vars

\* C3 witness: run() threw for want of an output on a builder whose input is
\* a stream, and no bridge was opened
C3_Witness ==
  /\ thrown = NoOutputs
  /\ Len(_inputs) > 0
  /\ _inputs[1].src.type = "stream"
  /\ Len(_outputs) = 0
  /\ bridges = << >>
  /\ execaCalls = << >>

\* The calls of C4 and C5, whatever their arguments in the model
InputScopedCall(loopArgs) ==
  \/ \E f \in InputFormatArgs : inputFormat(f)
  \/ \E n \in RateArgs : inputFPS(n)
  \/ native
  \/ \E t \in TimeArgs : seekInput(t)
  \/ \E length \in loopArgs : loop(length)
  \/ \E o \in OptionStrings : inputOptions(<<o>>)

AudioSetterCall ==
  \/ \E c \in CodecArgs : audioCodec(c)
  \/ \E b \in BitrateArgs : audioBitrate(b)
  \/ \E n \in ChannelArgs : audioChannels(n)
  \/ \E n \in FrequencyArgs : audioFrequency(n)
  \/ \E n \in QualityArgs : audioQuality(n)
  \/ \E f \in AudioFilterArgs : audioFilters(<<f>>)

VideoSetterCall(sizes) ==
  \/ \E c \in VideoCodecArgs : videoCodec(c)
  \/ \E b \in VideoBitrateArgs : videoBitrate(b)
  \/ \E n \in RateArgs : fps(n)
  \/ \E n \in FrameArgs : frames(n)
  \/ \E s \in sizes : size(s)
  \/ \E f \in VideoFilterArgs : videoFilters(<<f>>)

OutputScopedCall(sizes) ==
  \/ \E o \in OptionStrings : outputOptions(<<o>>)
  \/ noAudio
  \/ noVideo
  \/ AudioSetterCall
  \/ VideoSetterCall(sizes)
  \/ \E d \in DurationArgs : duration(d)
  \/ \E t \in TimeArgs : seek(t)
  \/ \E f \in FormatArgs : format(f)

NoOutputAdded == Lit("No output added. Please add an output")
NoInputAdded == Lit("No input added. Please add an input")
LoopNeedsDuration == Lit("Please specify loop output duration on the output instead")

\* C4: every output-scoped call (size with a well-formed string) made while
\* no output has been added throws "No output added", for any number of
\* inputs, and adds no output.
C4_OutputCallNeedsOutput ==
  [][(Len(_outputs) = 0 /\ OutputScopedCall(WellFormedSizes)) =>
       (thrown' = NoOutputAdded /\ _outputs' = << >>)]_vars

\* C4 witness: an output-scoped call threw with two inputs and no output
C4_Witness ==
  /\ thrown = NoOutputAdded
  /\ Len(_inputs) = 2
  /\ Len(_outputs) = 0

\* C5, as stated: every input-scoped call, with any argument, made while no
\* input has been added throws "No input added".
C5_AnyArgument ==
  [][(Len(_inputs) = 0 /\ InputScopedCall(LoopArgs)) => thrown' = NoInputAdded]_vars

\* C5, amended: with no input added, inputFormat, inputFPS, native,
\* seekInput, inputOptions and loop with a falsy argument throw "No input
\* added"; loop with a truthy argument throws the error that asks for a
\* duration on the output, with or without inputs.
C5_InputCallNeedsInput ==
  [][/\ (Len(_inputs) = 0 /\ InputScopedCall({Undefined})) =>
          (thrown' = NoInputAdded /\ _inputs' = << >>)
     /\ (\E length \in LoopArgs : TruthyNum(length) /\ loop(length)) =>
          (thrown' = LoopNeedsDuration /\ _inputs' = _inputs)]_vars

\* C5 witness: an input-scoped call threw with no input and one output
C5_Witness ==
  /\ thrown = NoInputAdded
  /\ Len(_inputs) = 0
  /\ Len(_outputs) = 1

LastOutput == _outputs[Len(_outputs)]

\* C6: on a current output whose audio (video) is disabled every audio
\* (video) setter throws and changes nothing; no step re-enables a disabled
\* track of any output; output() appends an output with both tracks enabled
\* and empty, and on an output added after one with a disabled track the
\* setters succeed.
C6_DisabledTrackStaysDisabled ==
  [][/\ (Len(_outputs) > 0 /\ ~TruthyObj(LastOutput.audio) /\ AudioSetterCall) =>
          (thrown' = Lit("Audio disabled") /\ _outputs' = _outputs)
     /\ (Len(_outputs) > 0 /\ ~TruthyObj(LastOutput.video)
           /\ VideoSetterCall(WellFormedSizes)) =>
          (thrown' = Lit("Video disabled") /\ _outputs' = _outputs)
     /\ \A k \in 1..Len(_outputs) :
          /\ Len(_outputs') >= k
          /\ ~TruthyObj(_outputs[k].audio) => ~TruthyObj(_outputs'[k].audio)
          /\ ~TruthyObj(_outputs[k].video) => ~TruthyObj(_outputs'[k].video)
     /\ (Len(_outputs') = Len(_outputs) + 1) =>
          /\ \E dst \in Destinations : output(dst)
          /\ _outputs'[Len(_outputs')].audio = Some(EmptyAudio)
          /\ _outputs'[Len(_outputs')].video = Some(EmptyVideo)
     /\ (Len(_outputs) > 1 /\ ~TruthyObj(_outputs[Len(_outputs) - 1].audio)
           /\ TruthyObj(LastOutput.audio) /\ AudioSetterCall) =>
          (thrown' = NoError /\ TruthyObj(_outputs'[Len(_outputs)].audio))
     /\ (Len(_outputs) > 1 /\ ~TruthyObj(_outputs[Len(_outputs) - 1].video)
           /\ TruthyObj(LastOutput.video) /\ VideoSetterCall(WellFormedSizes)) =>
          (thrown' = NoError /\ TruthyObj(_outputs'[Len(_outputs)].video))]_vars

\* C6 witness: audio was disabled on the first output, an audio setter threw
\* on it or was never tried, and after output() a setter succeeded on the
\* second output
C6_Witness ==
  /\ Len(_outputs) = 2
  /\ ~TruthyObj(_outputs[1].audio)
  /\ TruthyObj(_outputs[2].audio)
  /\ TruthyStr(Val(_outputs[2].audio).codec)
  /\ thrown = NoError

\* The order of the parts of an input group and of an output group (C7)
C7_InputOrder == <<"extra", "-f", "-r", "-re", "-ss", "-loop", "-i">>
C7_OutputOrder == <<"-f", "-ss", "-t", "audio", "video", "extra", "destination">>
C7_AudioOrder == <<"-c:a", "-b:a", "-ac", "-ar", "-q:a", "-af">>
C7_VideoOrder == <<"-c:v", "-b:v", "-r", "-frames:v", "-vf">>

\* A flag and its value when the setting is set, nothing otherwise
C7_FlagStr(flag, o) == IF TruthyStr(o) THEN <<Lit(flag), Val(o)>> ELSE << >>
C7_FlagNum(flag, o) == IF TruthyNum(o) THEN <<Lit(flag), NumToString(Val(o))>> ELSE << >>

C7_InputPart(i, url, part) ==
  CASE part = "extra" -> (IF IsDef(i.extraOpts) THEN Val(i.extraOpts) ELSE << >>)
    [] part = "-f" -> C7_FlagStr(part, i.format)
    [] part = "-r" -> C7_FlagNum(part, i.fps)
    [] part = "-re" -> (IF IsDef(i.readrateNative) THEN <<Lit(part)>> ELSE << >>)
    [] part = "-ss" -> C7_FlagStr(part, i.startTime)
    [] part = "-loop" -> (IF IsDef(i.loop) THEN <<Lit(part), Lit("-1")>> ELSE << >>)
    [] part = "-i" -> <<Lit(part), url>>

C7_AudioPart(a, part) ==
  CASE part = "-c:a" -> C7_FlagStr(part, a.codec)
    [] part = "-b:a" -> C7_FlagStr(part, a.bitrate)
    [] part = "-ac" -> C7_FlagNum(part, a.channels)
    [] part = "-ar" -> C7_FlagNum(part, a.freq)
    [] part = "-q:a" -> C7_FlagNum(part, a.quality)
    [] part = "-af" -> (IF IsDef(a.filters)
                        THEN <<Lit(part), filtersToString(Val(a.filters))>> ELSE << >>)

C7_VideoPart(v, part) ==
  CASE part = "-c:v" -> C7_FlagStr(part, v.codec)
    [] part = "-b:v" -> C7_FlagStr(part, v.bitrate)
    [] part = "-r" -> C7_FlagNum(part, v.fps)
    [] part = "-frames:v" -> C7_FlagNum(part, v.frames)
    [] part = "-vf" ->
         (IF IsDef(v.filters) \/ IsDef(v.size)
          THEN <<Lit(part),
                 filtersToString((IF IsDef(v.filters) THEN Val(v.filters) ELSE << >>)
                                 \o (IF IsDef(v.size) THEN <<ScaleFilter(Val(v.size))>>
                                     ELSE << >>))>>
          ELSE << >>)

C7_OutputPart(o, url, part) ==
  CASE part = "-f" -> C7_FlagStr(part, o.format)
    [] part = "-ss" -> C7_FlagStr(part, o.startTime)
    [] part = "-t" -> C7_FlagStr(part, o.duration)
    [] part = "audio" ->
         (IF ~IsDef(o.audio) THEN <<Lit("-an")>>
          ELSE Flatten([k \in 1..Len(C7_AudioOrder) |->
                          C7_AudioPart(Val(o.audio), C7_AudioOrder[k])]))
    [] part = "video" ->
         (IF ~IsDef(o.video) THEN <<Lit("-vn")>>
          ELSE Flatten([k \in 1..Len(C7_VideoOrder) |->
                          C7_VideoPart(Val(o.video), C7_VideoOrder[k])]))
    [] part = "extra" -> (IF IsDef(o.extraOpts) THEN Val(o.extraOpts) ELSE << >>)
    [] part = "destination" -> <<url>>

\* The number of stream-backed specs among the first k of specs (ends: the
\* src or dst of each)
C7_Streams(ends, k) == Cardinality({j \in 1..k : ends[j].type = "stream"})

\* The vector C7 describes for inputs ins and outputs outs, where the bridges
\* of the run are brs[base + 1], brs[base + 2], ... in the order of the walk
C7_Vector(ins, outs, base, brs) ==
  LET srcs == [k \in 1..Len(ins) |-> ins[k].src]
      dsts == [k \in 1..Len(outs) |-> outs[k].dst]
      inUrl(k) == IF srcs[k].type = "string" THEN srcs[k].val
                  ELSE brs[base + C7_Streams(srcs, k)].url
      outUrl(k) == IF dsts[k].type = "string" THEN dsts[k].val
                   ELSE brs[base + C7_Streams(srcs, Len(ins)) + C7_Streams(dsts, k)].url
      inGroup(k) == Flatten([p \in 1..Len(C7_InputOrder) |->
                               C7_InputPart(ins[k], inUrl(k), C7_InputOrder[p])])
      outGroup(k) == Flatten([p \in 1..Len(C7_OutputOrder) |->
                                C7_OutputPart(outs[k], outUrl(k), C7_OutputOrder[p])])
  IN Flatten([k \in 1..Len(ins) |-> inGroup(k)])
     \o Flatten([k \in 1..Len(outs) |-> outGroup(k)])

\* C7: the vector a valid run() hands to execa is the concatenation of one
\* group per input, in insertion order, then one group per output, in
\* insertion order, each group in the order of C7_InputOrder, C7_OutputOrder,
\* C7_AudioOrder and C7_VideoOrder.
C7_VectorInGroupOrder ==
  [][(Len(execaCalls') = Len(execaCalls) + 1) =>
       (/\ run
        /\ execaCalls'[Len(execaCalls')].args
             = C7_Vector(_inputs, _outputs, Len(bridges), bridges'))]_vars

\* C7 witness: the vector of a run holds -an before -b:v, then the file of
\* the output
C7_Witness ==
  /\ Len(execaCalls) = 1
  /\ LET args == execaCalls[1].args
     IN /\ \E p, q \in 1..Len(args) :
             p < q /\ args[p] = Lit("-an") /\ args[q] = Lit("-b:v") /\ args[q + 1] = Lit("1M")
        /\ args[Len(args)] = Lit("out.mp4")

EventCount(name) == Cardinality({k \in 1..Len(emitted) : emitted[k].name = name})

\* C8: a run that was handed to execa produces at most one of "end" and
\* "error", and once its promise chain has run exactly one: "end" when the
\* process succeeded, "error" when it failed or was cancelled.
C8_ExactlyOneTerminal ==
  /\ EventCount("end") + EventCount("error") <= 1
  /\ watcher = "done" =>
       /\ EventCount("end") + EventCount("error") = 1
       /\ (settled = "fulfilled") = (EventCount("end") = 1)

\* C9: "start" is emitted before any "stderr", and no "stderr" is emitted
\* after "end" or "error".
C9_CausalOrder ==
  \A q \in 1..Len(emitted) :
    emitted[q].name = "stderr" =>
      /\ \E p \in 1..(q - 1) : emitted[p].name = "start"
      /\ \A p \in 1..(q - 1) : emitted[p].name \notin {"end", "error"}

Min(a, b) == IF a < b THEN a ELSE b

\* C10: with a maximum N > 0, after k lines the buffer holds the last
\* min(k, N) lines in their order, so never more than N; with N = 0 it holds
\* all k lines.
C10_BufferHoldsLastLines ==
  LET N == _options.stdoutLines
      keep == IF N = 0 THEN nlines ELSE Min(nlines, N)
  IN /\ _stderrLines = [j \in 1..keep |-> Line(nlines - keep + j)]
     /\ N > 0 => Len(_stderrLines) <= N

\* C10 witness: 150 lines with the default maximum leave the last 100
C10_Witness ==
  /\ _options.stdoutLines = DefaultStdoutLines
  /\ nlines = 150
  /\ Len(_stderrLines) = 100
  /\ _stderrLines[1] = Line(51)
  /\ _stderrLines[100] = Line(150)

\* C11: a channel endpoint services at most one inbound connection: onSocket
\* pipes at most one socket to or from the stream.
C11_AtMostOneConnection ==
  \A k \in 1..Len(bridges) : Len(bridges[k].pipes) <= 1

\* C12: once the stream bound to an endpoint has closed, the server of the
\* endpoint is not accepting (it was closed, or it never bound), whether or
\* not close() was called and whether or not a peer ever connected.
C12_StreamCloseClosesAcceptor ==
  \A k \in 1..Len(bridges) :
    bridges[k].streamClosed => bridges[k].server \notin {"binding", "listening"}

\* C12 witness: the stream of an endpoint no peer connected to has closed and
\* the server, which was listening, is closed; another endpoint still listens
C12_Witness ==
  \E k, j \in 1..Len(bridges) :
    /\ bridges[k].streamClosed
    /\ bridges[k].server = "closed"
    /\ bridges[k].pipes = << >>
    /\ ~bridges[j].streamClosed
    /\ bridges[j].server = "listening"

\* C13: when the endpoint of a stream-backed input or output cannot be bound,
\* run() throws and execa is not invoked.
C13_BindFailureAbortsRun ==
  (\E k \in 1..Len(bridges) : bridges[k].server = "failed") =>
    (execaCalls = << >> /\ ~TruthyObj(_proc))

\* C14: once run() has returned a process handle, no later call changes the
\* list of inputs, the list of outputs or any field of any spec.
C14_SpecsFrozenAfterRun ==
  [][TruthyObj(_proc) => (_inputs' = _inputs /\ _outputs' = _outputs)]_vars

\* A string of digits that denotes a positive integer
C15_IsPositiveInteger(t) ==
  /\ Len(t) > 0
  /\ \A j \in 1..Len(t) : IsDigit(t[j])
  /\ DigitsToNat(t, 0) > 0

\* The size C15 says size(s) stores, or Undefined when it says size(s) throws
C15_Claimed(s) ==
  IF Len(s) > 0 /\ s[Len(s)] = "%"
  THEN (IF C15_IsPositiveInteger(SubSeq(s, 1, Len(s) - 1))
        THEN Some(SizePercent(DigitsToNat(SubSeq(s, 1, Len(s) - 1), 0)))
        ELSE Undefined)
  ELSE LET parts == SplitOn(s, "x", << >>)
       IN IF Len(parts) # 2 THEN Undefined
          ELSE IF C15_IsPositiveInteger(parts[1]) /\ C15_IsPositiveInteger(parts[2])
          THEN Some(SizeWH(Some(DigitsToNat(parts[1], 0)), Some(DigitsToNat(parts[2], 0))))
          ELSE IF C15_IsPositiveInteger(parts[1]) /\ parts[2] = <<"?">>
          THEN Some(SizeWH(Some(DigitsToNat(parts[1], 0)), Undefined))
          ELSE IF parts[1] = <<"?">> /\ C15_IsPositiveInteger(parts[2])
          THEN Some(SizeWH(Undefined, Some(DigitsToNat(parts[2], 0))))
          ELSE Undefined

\* C15: on an output with video enabled, size(s) stores width and height for
\* "WxH", width for "Wx?", height for "?xH" and the percentage for "N%" (W, H,
\* N positive integers); for every other string it throws and stores nothing.
C15_SizeParsing ==
  [][\A s \in AllSizes :
       (Len(_outputs) > 0 /\ TruthyObj(LastOutput.video) /\ size(s)) =>
         IF IsDef(C15_Claimed(s))
         THEN /\ thrown' = NoError
              /\ Val(_outputs'[Len(_outputs)].video).size = C15_Claimed(s)
         ELSE /\ thrown' # NoError
              /\ _outputs' = _outputs]_vars

\* The number of tokens of args that are the flag
C16_Count(args, flag) == Cardinality({j \in 1..Len(args) : args[j] = Lit(flag)})

\* C16: the vector of a run holds one "-af" for each output with audio
\* enabled to which at least one audio filter was added, and no other; one
\* "-vf" for each output with video enabled to which at least one video
\* filter was added or whose size was set, and no other.
C16_FilterFlagNeedsFilter ==
  [][(Len(execaCalls') = Len(execaCalls) + 1) =>
       LET args == execaCalls'[Len(execaCalls')].args
       IN /\ C16_Count(args, "-af") =
               Cardinality({k \in 1..Len(_outputs) :
                  /\ TruthyObj(_outputs[k].audio)
                  /\ ListLen(Val(_outputs[k].audio).filters) > 0})
          /\ C16_Count(args, "-vf") =
               Cardinality({k \in 1..Len(_outputs) :
                  /\ TruthyObj(_outputs[k].video)
                  /\ \/ ListLen(Val(_outputs[k].video).filters) > 0
                     \/ IsDef(Val(_outputs[k].video).size)})]_vars

\* C17, as stated: with a negative maximum the buffer is never trimmed: after
\* k lines it holds all k lines in order.
C17_NegativeMaxNeverTrims ==
  _options.stdoutLines < 0 => _stderrLines = [j \in 1..nlines |-> Line(j)]

\* C17, amended: with a negative maximum every line triggers the trim, which
\* leaves the buffer empty: after any number of lines the buffer holds no
\* line, every line was still emitted as "stderr", and the terminal
\* notification carries the empty string.
C17_NegativeMaxEmptiesBuffer ==
  _options.stdoutLines < 0 =>
    /\ _stderrLines = << >>
    /\ EventCount("stderr") = nlines
    /\ \A q \in 1..Len(emitted) :
         emitted[q].name \in {"end", "error"} => emitted[q].arg = << >>

\* C17 witness: a run with stdoutLines -1 wrote three lines or more and ended
C17_Witness ==
  /\ _options.stdoutLines = -1
  /\ nlines >= 3
  /\ _stderrLines = << >>
  /\ EventCount("stderr") = nlines
  /\ \E q \in 1..Len(emitted) : emitted[q].name = "end" /\ emitted[q].arg = << >>

\* The specs of a list before its last one are left as they were
C18_EarlierUnchanged(before, after) ==
  /\ Len(after) = Len(before)
  /\ \A k \in 1..(Len(before) - 1) : after[k] = before[k]

\* C18: an input-scoped call leaves every input but the last, every output
\* and the length of both lists unchanged; an output-scoped call leaves every
\* output but the last, every input and both lengths unchanged; input() and
\* output() append one spec and leave every existing spec unchanged.
C18_OnlyLastSpecChanges ==
  [][/\ \/ (C18_EarlierUnchanged(_inputs, _inputs') /\ _outputs' = _outputs)
        \/ ~InputScopedCall({Undefined})
     /\ \/ (C18_EarlierUnchanged(_outputs, _outputs') /\ _inputs' = _inputs)
        \/ ~OutputScopedCall(WellFormedSizes)
     /\ \/ /\ Len(_inputs') = Len(_inputs) + 1
           /\ SubSeq(_inputs', 1, Len(_inputs)) = _inputs
           /\ _outputs' = _outputs
        \/ ~(\E src \in Sources : input(src))
     /\ \/ /\ Len(_outputs') = Len(_outputs) + 1
           /\ SubSeq(_outputs', 1, Len(_outputs)) = _outputs
           /\ _inputs' = _inputs
        \/ ~(\E dst \in Destinations : output(dst))]_vars

\* C18 witness: of two inputs and one output, the second input alone carries
\* the format that inputFormat set after it was added
C18_Witness ==
  /\ Len(_inputs) = 2
  /\ Len(_outputs) = 1
  /\ _inputs[1] = NewInput(_inputs[1].src)
  /\ TruthyStr(_inputs[2].format)
  /\ \E dst \in Destinations : _outputs[1] = NewOutput(dst)
  /\ thrown = NoError

\* C19: a call that throws (a builder call or run()) leaves the list of
\* inputs, the list of outputs and every spec as they were, and does not
\* mark the instance as run.
C19_ThrowChangesNothing ==
  [][thrown' # NoError =>
       /\ _inputs' = _inputs
       /\ _outputs' = _outputs
       /\ _proc' = _proc
       /\ execaCalls' = execaCalls]_vars

\* C19 witness: size("0%") threw on the one output of a builder with one
\* input, and the output has its video settings as output() made them
C19_Witness ==
  /\ thrown = Lit("Invalid size: ") \o <<"0", "%">>
  /\ Len(_inputs) = 1
  /\ Len(_outputs) = 1
  /\ _outputs[1].video = Some(EmptyVideo)
  /\ ~TruthyObj(_proc)

\* The tokens of the arguments of one call of inputOptions or outputOptions
C20_Tokens(os) == Flatten([k \in 1..Len(os) |-> parseArgsStringToArgv(os[k])])

\* The extra options of a spec, none when no call has set them
C20_Extra(o) == IF IsDef(o) THEN Val(o) ELSE << >>

\* The groups of a file input and of a file output whose format, audio codec
\* and frame rate are the only settings besides the extra options
C20_InputGroup(i) ==
  C20_Extra(i.extraOpts)
  \o (IF IsDef(i.format) THEN <<Lit("-f"), Val(i.format)>> ELSE << >>)
  \o <<Lit("-i"), i.src.val>>

C20_OutputGroup(o) ==
  (IF IsDef(o.format) THEN <<Lit("-f"), Val(o.format)>> ELSE << >>)
  \o (IF IsDef(Val(o.audio).codec) THEN <<Lit("-c:a"), Val(Val(o.audio).codec)>> ELSE << >>)
  \o (IF IsDef(Val(o.video).fps)
      THEN <<Lit("-r"), NumToString(Val(Val(o.video).fps))>> ELSE << >>)
  \o C20_Extra(o.extraOpts)
  \o <<o.dst.val>>

\* C20: each inputOptions (outputOptions) call appends its tokens, in order,
\* to the extra options of the current input (output), so that these are the
\* concatenation in call order of the tokens of all its calls; a scalar
\* setter leaves its argument as the value, whatever the value was; run()
\* emits the extra options of each spec whole and in that order, and the last
\* value of each scalar.
C20_OptionsAccumulate ==
  [][/\ \A os \in OptionCalls :
          /\ (Len(_inputs) > 0 /\ inputOptions(os)) =>
               _inputs'[Len(_inputs)].extraOpts =
                 Some(C20_Extra(_inputs[Len(_inputs)].extraOpts) \o C20_Tokens(os))
          /\ (Len(_outputs) > 0 /\ outputOptions(os)) =>
               _outputs'[Len(_outputs)].extraOpts =
                 Some(C20_Extra(LastOutput.extraOpts) \o C20_Tokens(os))
     /\ \A f \in TwoInputFormats :
          (Len(_inputs) > 0 /\ inputFormat(f)) => _inputs'[Len(_inputs)].format = Some(f)
     /\ \A f \in TwoFormats :
          (Len(_outputs) > 0 /\ format(f)) => _outputs'[Len(_outputs)].format = Some(f)
     /\ \A c \in TwoCodecs :
          (Len(_outputs) > 0 /\ audioCodec(c)) =>
            Val(_outputs'[Len(_outputs)].audio).codec = Some(c)
     /\ \A n \in TwoRates :
          (Len(_outputs) > 0 /\ fps(n)) => Val(_outputs'[Len(_outputs)].video).fps = Some(n)
     /\ (Len(execaCalls') = Len(execaCalls) + 1) =>
          execaCalls'[Len(execaCalls')].args =
            Flatten([k \in 1..Len(_inputs) |-> C20_InputGroup(_inputs[k])])
            \o Flatten([k \in 1..Len(_outputs) |-> C20_OutputGroup(_outputs[k])])]_vars

\* C20 witness: after inputOptions("-threads 2"), inputOptions("-y") and
\* format("mp4"), format("matroska") the vector of the run holds the tokens
\* of the two calls in call order and the second format alone
C20_Witness ==
  /\ Len(execaCalls) = 1
  /\ execaCalls[1].args =
       <<Lit("-threads"), Lit("2"), Lit("-y"), Lit("-i"), Lit("in.mp4"),
         Lit("-f"), Lit("matroska"), Lit("out.mp4")>>

====
